---- MODULE Spec2Model ----
(***************************************************************************)
(* VSCodeBridge (python_client/vscode_bridge.py): the singleton WebSocket  *)
(* client, its connection life cycle, the blocking send/receive exchange   *)
(* and the decoding of the host's reply by the four facade methods.        *)
(*                                                                         *)
(* Every thread of control is a small program counter machine whose labels *)
(* carry the source line they stand at (J111 = send_json_message line 111, *)
(* K65 = connect line 65, R94 = send_raw_message line 94, ...).  The host  *)
(* and the sockets are the environment: a socket is a record holding the   *)
(* requests the host has not answered yet, the frames the client has not   *)
(* read yet and the number of close() calls made on it.                    *)
(***************************************************************************)
EXTENDS Integers, Sequences, FiniteSets, TLC

\* ------------------------------------------------------------------ bounds
MaxCalls == 3        \* facade calls started in one run
MaxSockets == 2      \* sockets create_connection opens in one run
MTCalls == 2         \* the same two, when two threads share the bridge
MTSockets == 1

\* ------------------------------------------------------- program constants
DefaultPort == 60123
OtherPort == DefaultPort + 1

Ports == {DefaultPort, OtherPort}
AllThreads == {1, 2}
None == 0            \* None for cls._instance and self.ws (ids start at 1)

FacadeOps == {"notify", "get_editor_titles", "get_text_from_editor",
              "set_active_editor_text"}

\* What makes create_connection / send / recv raise.
ConnectCauses == {"timed out", "refused", "name resolution"}
IoCauses == {"connection closed", "timed out"}

VARIABLES
    instance,      \* cls._instance: None or the id of the one object
    initialized,   \* hasattr(self, '_initialized')
    port,          \* self.port
    url,           \* self.url
    ws,            \* self.ws: None or a socket id
    connected,     \* self.connected
    atexitHook,    \* atexit.register(self.cleanup) has run
    socks,         \* the sockets opened so far; a socket's id is its index
    nsock,         \* sockets opened so far
    ncalls,        \* facade calls started so far
    th,            \* thread -> its locals and position
    broken,        \* sockets on which a send or a receive has failed
    exited,        \* the interpreter has run its exit hooks
    world          \* the run's setting: the threads that use the bridge,
                   \* the reply texts its host sends, the operations,
                   \* ports and faults that occur, the calls and sockets
                   \* it is followed for

vars == <<instance, initialized, port, url, ws, connected, atexitHook, socks,
          nsock, ncalls, th, broken, exited, world>>

bridgeVars == <<instance, initialized, port, url, atexitHook>>
envVars == <<exited, world>>

\* ------------------------------------------------------------ reply texts
\* The texts a host can put in a reply frame, and what json.loads makes of
\* each.  kind "invalid" is text json.loads rejects (JSONDecodeError).
Greeting == "welcome"

JsonValue(k, ce, he, ek, hm, m, hc, c, hr, r) ==
    [kind |-> k, containsError |-> ce, hasError |-> he, errKind |-> ek,
     hasMsg |-> hm, msg |-> m, hasCode |-> hc, code |-> c, hasResult |-> hr,
     result |-> r]

Scalar(kind, containsError) ==
    JsonValue(kind, containsError, FALSE, "", FALSE, "", FALSE, "", FALSE, "")
Obj(hasError, errKind, hasMsg, msg, hasCode, code, hasResult, result) ==
    JsonValue("object", hasError, hasError, errKind, hasMsg, msg, hasCode,
              code, hasResult, result)

ReplyTexts ==
    {"{\"result\": null}", "{\"result\": \"hello\"}", "{}",
     "{\"error\": {\"message\": \"X\", \"code\": 42}}",
     "{\"error\": {\"message\": \"X\", \"code\": 42}, \"result\": \"hello\"}",
     "{\"error\": {\"message\": \"X\"}}",
     "{\"error\": {}}",
     "{\"error\": \"boom\"}",
     "{\"error\": null}",
     "null", "5", "\"ok\"", "\"error\"", "[]", "[\"error\"]",
     "not json"}

json_loads(text) ==
    CASE text = "{\"result\": null}" ->
            Obj(FALSE, "", FALSE, "", FALSE, "", TRUE, "None")
      [] text = "{\"result\": \"hello\"}" ->
            Obj(FALSE, "", FALSE, "", FALSE, "", TRUE, "hello")
      [] text = "{}" ->
            Obj(FALSE, "", FALSE, "", FALSE, "", FALSE, "")
      [] text = "{\"error\": {\"message\": \"X\", \"code\": 42}}" ->
            Obj(TRUE, "object", TRUE, "X", TRUE, "42", FALSE, "")
      [] text = "{\"error\": {\"message\": \"X\", \"code\": 42}, \"result\": \"hello\"}" ->
            Obj(TRUE, "object", TRUE, "X", TRUE, "42", TRUE, "hello")
      [] text = "{\"error\": {\"message\": \"X\"}}" ->
            Obj(TRUE, "object", TRUE, "X", FALSE, "", FALSE, "")
      [] text = "{\"error\": {}}" ->
            Obj(TRUE, "object", FALSE, "", FALSE, "", FALSE, "")
      [] text = "{\"error\": \"boom\"}" ->
            Obj(TRUE, "string", FALSE, "", FALSE, "", FALSE, "")
      [] text = "{\"error\": null}" ->
            Obj(TRUE, "null", FALSE, "", FALSE, "", FALSE, "")
      [] text = "null" -> Scalar("null", FALSE)
      [] text = "5" -> Scalar("number", FALSE)
      [] text = "\"ok\"" -> Scalar("string", FALSE)
      [] text = "\"error\"" -> Scalar("string", TRUE)
      [] text = "[]" -> Scalar("array", FALSE)
      [] text = "[\"error\"]" -> Scalar("array", TRUE)
      [] OTHER -> Scalar("invalid", FALSE)

\* ------------------------------------------------- results and exceptions
\* What a public operation hands back to its caller.
Returned(value) ==
    [kind |-> "return", etype |-> "", msg |-> "", detail |-> "",
     code |-> "", value |-> value]
Raised(etype, msg, detail, code) ==
    [kind |-> "raise", etype |-> etype, msg |-> msg, detail |-> detail,
     code |-> code, value |-> ""]
NoOutcome ==
    [kind |-> "none", etype |-> "", msg |-> "", detail |-> "",
     code |-> "", value |-> ""]

\* VSCodeBridgeError(message, code=None)
VSCodeBridgeError(msg, detail, code) ==
    Raised("VSCodeBridgeError", msg, detail, code)

\* Decode with the precedence turned round: a reply that has a 'result' is
\* returned without a look at 'error'.
DecodeResultFirst(text) ==
    LET response == json_loads(text) IN
    IF response.kind = "invalid"
    THEN VSCodeBridgeError("Invalid JSON response: ", "JSONDecodeError", "None")
    ELSE IF response.kind = "object" /\ response.hasResult
    THEN Returned("response")
    ELSE IF response.kind \in {"null", "number"}
    THEN Raised("TypeError", "argument is not iterable", "", "")
    ELSE IF ~response.containsError
    THEN Returned("response")
    ELSE IF response.kind # "object"
    THEN Raised("TypeError", "indices must be integers", "", "")
    ELSE IF response.errKind # "object"
    THEN Raised("AttributeError", "object has no attribute 'get'", "", "")
    ELSE VSCodeBridgeError(
             IF response.hasMsg THEN response.msg ELSE "Unknown error", "",
             IF response.hasCode THEN response.code ELSE "None")

\* send_json_message, lines 117-130: the parse, the test for an 'error' key
\* and the raise.  Only JSONDecodeError is caught; what `in`, the subscript
\* and .get raise on a value of another type reaches the caller as it is.
Decode(text) ==
    LET response == json_loads(text) IN
    IF response.kind = "invalid"
    THEN VSCodeBridgeError("Invalid JSON response: ", "JSONDecodeError", "None")
    ELSE IF response.kind \in {"null", "number"}
    THEN Raised("TypeError", "argument is not iterable", "", "")
    ELSE IF ~response.containsError
    THEN Returned("response")
    ELSE IF response.kind # "object"
    THEN Raised("TypeError", "indices must be integers", "", "")
    ELSE IF response.errKind # "object"
    THEN Raised("AttributeError", "object has no attribute 'get'", "", "")
    ELSE VSCodeBridgeError(
             IF response.hasMsg THEN response.msg ELSE "Unknown error", "",
             IF response.hasCode THEN response.code ELSE "None")

\* The getters with no default given to .get: an absent result is None.
ResultDefaultNone(op) == "None"

\* The default of response.get('result', <default>) in the two getters.
ResultDefault(op) ==
    IF op = "get_editor_titles" THEN "[]" ELSE "''"

\* The facade methods, lines 144-185, once send_json_message has the reply
\* text: notify and set_active_editor_text drop the response, the getters
\* return response.get('result', default).
FacadeResult(op, text) ==
    LET decoded == Decode(text)
        response == json_loads(text)
    IN  IF decoded.kind = "raise" THEN decoded
        ELSE IF op \in {"notify", "set_active_editor_text"}
        THEN Returned("None")
        ELSE IF response.kind # "object"
        THEN Raised("AttributeError", "object has no attribute 'get'", "", "")
        ELSE Returned(IF response.hasResult THEN response.result
                      ELSE ResultDefault(op))

\* The command tag each facade method puts in its request.
CommandTag(op) ==
    CASE op = "notify" -> "notify"
      [] op = "get_editor_titles" -> "get_titles_of_active_editors"
      [] op = "get_text_from_editor" -> "get_text_from_named_editor"
      [] op = "set_active_editor_text" -> "set_text_of_active_editor"

\* ------------------------------------------------------------------ state
NoFrame == [req |-> 0 - 1, text |-> ""]
GreetingFrame == [req |-> 0, text |-> Greeting]

\* A thread's locals: where it stands (pc), the public operation it is in
\* (op), where connect() returns to (ret), the id of its request (req), the
\* frame recv() gave it (resp), the exception in flight (exc), what the last
\* operation handed back (out), and counts of what the operation did so far.
IdleThread ==
    [pc |-> "idle", op |-> "none", ret |-> "", req |-> 0, portArg |-> 0,
     resp |-> NoFrame, exc |-> "", out |-> NoOutcome,
     wasConnected |-> FALSE, wasWs |-> None,
     opens |-> 0, sends |-> 0, reads |-> 0, closes |-> 0, failCause |-> ""]

NewSocket(u, inbox) ==
    [url |-> u, toHost |-> <<>>, inbox |-> inbox, sent |-> <<>>,
     got |-> <<>>, closes |-> 0]

UrlOf(p) == <<"ws://localhost:", p>>

InitWith(w) ==
    /\ instance = None
    /\ initialized = FALSE
    /\ port = 0
    /\ url = <<>>
    /\ ws = None
    /\ connected = FALSE
    /\ atexitHook = FALSE
    /\ socks = <<>>
    /\ nsock = 0
    /\ ncalls = 0
    /\ th = [t \in AllThreads |-> IdleThread]
    /\ broken = {}
    /\ exited = FALSE
    /\ world = w

\* One thread of control, a host that may send any reply text.
Init ==
    InitWith([threads |-> {1}, texts |-> ReplyTexts, ops |-> FacadeOps,
              ports |-> Ports, connectCauses |-> ConnectCauses,
              ioCauses |-> IoCauses,
              calls |-> MaxCalls, sockets |-> MaxSockets])

\* Start of a public operation of thread t: fresh locals.
Begin(t, op) ==
    [IdleThread EXCEPT !.op = op, !.pc = "busy",
                       !.wasConnected = connected, !.wasWs = ws]

Idle(t) == t \in world.threads /\ th[t].pc = "idle" /\ ~exited

\* The operation of thread t ends: back to the caller with outcome o.
Finish(t, o) == th' = [th EXCEPT ![t].pc = "idle", ![t].out = o]

\* ------------------------------------------------------------ construction
\* VSCodeBridge(port): __new__ (lines 36-42) hands out cls._instance, making
\* it first when there is none; __init__ (lines 44-56) sets the fields and
\* registers the exit hook unless the object is already initialised.
Construct(t, p) ==
    /\ Idle(t)
    /\ p \in world.ports
    /\ instance' = (IF instance = None THEN 1 ELSE instance)
    /\ IF initialized
       THEN UNCHANGED <<port, url, ws, connected, atexitHook>>
       ELSE /\ port' = p
            /\ url' = UrlOf(p)
            /\ ws' = None
            /\ connected' = FALSE
            /\ atexitHook' = TRUE
    /\ initialized' = TRUE
    /\ th' = [th EXCEPT ![t] = [Begin(t, "construct") EXCEPT
                  !.pc = "idle", !.portArg = p, !.out = Returned("instance")]]
    /\ UNCHANGED <<socks, nsock, ncalls, broken>>
    /\ UNCHANGED envVars
\* --------------------------------------------------------------- connect()
\* Where connect() returns to: its caller at top level ("top"), line 112 of
\* send_json_message ("J") or line 84 of send_raw_message ("R").
AfterConnect(f, t) ==
    CASE f[t].ret = "top" ->
            [f EXCEPT ![t].pc = "idle", ![t].out = Returned("None")]
      [] f[t].ret = "J" -> [f EXCEPT ![t].pc = "R83"]
      [] f[t].ret = "R" -> [f EXCEPT ![t].pc = "R86"]

\* A caller invokes bridge.connect().
ConnectCall(t) ==
    /\ Idle(t)
    /\ instance # None
    /\ th' = [th EXCEPT ![t] = [Begin(t, "connect") EXCEPT
                                   !.pc = "K60", !.ret = "top"]]
    /\ UNCHANGED <<bridgeVars, ws, connected, socks, nsock, ncalls, broken>>
    /\ UNCHANGED envVars

\* connect() without its guard: it opens a connection every time.
K60NoGuard(t) ==
    /\ t \in world.threads
    /\ th[t].pc = "K60"
    /\ th' = [th EXCEPT ![t].pc = "K65"]
    /\ UNCHANGED <<bridgeVars, ws, connected, socks, nsock, ncalls, broken>>
    /\ UNCHANGED envVars

\* Line 60: if self.connected and self.ws: return
K60(t) ==
    /\ t \in world.threads
    /\ th[t].pc = "K60"
    /\ IF connected /\ ws # None
       THEN th' = AfterConnect(th, t)
       ELSE th' = [th EXCEPT ![t].pc = "K65"]
    /\ UNCHANGED <<bridgeVars, ws, connected, socks, nsock, ncalls, broken>>
    /\ UNCHANGED envVars

\* Line 65, create_connection succeeds: a new socket becomes self.ws.  A host
\* that greets does so as it accepts the connection, so the greeting is there
\* for the read of line 71, which waits for it up to the socket's timeout.
K65ok(t, greets) ==
    /\ t \in world.threads
    /\ th[t].pc = "K65"
    /\ nsock < world.sockets
    /\ socks' = Append(socks, NewSocket(url, IF greets THEN <<GreetingFrame>>
                                             ELSE <<>>))
    /\ nsock' = nsock + 1
    /\ ws' = nsock + 1
    /\ th' = [th EXCEPT ![t].pc = "K66", ![t].opens = @ + 1]
    /\ UNCHANGED <<bridgeVars, connected, ncalls, broken>>
    /\ UNCHANGED envVars

\* Line 65, create_connection raises: no socket, on to the handler.
K65fail(t, cause) ==
    /\ t \in world.threads
    /\ cause \in world.connectCauses
    /\ th[t].pc = "K65"
    /\ th' = [th EXCEPT ![t].pc = "K76", ![t].exc = cause,
                        ![t].failCause = cause, ![t].opens = @ + 1]
    /\ UNCHANGED <<bridgeVars, ws, connected, socks, nsock, ncalls, broken>>
    /\ UNCHANGED envVars

\* Line 66: self.connected = True
K66(t) ==
    /\ t \in world.threads
    /\ th[t].pc = "K66"
    /\ connected' = TRUE
    /\ th' = [th EXCEPT ![t].pc = "K71"]
    /\ UNCHANGED <<bridgeVars, ws, socks, nsock, ncalls, broken>>
    /\ UNCHANGED envVars

\* connect() that does not read the welcome message.
K71NoWelcome(t) ==
    /\ t \in world.threads
    /\ th[t].pc = "K71"
    /\ th' = AfterConnect(th, t)
    /\ UNCHANGED <<bridgeVars, ws, connected, socks, nsock, ncalls, broken>>
    /\ UNCHANGED envVars

\* Lines 70-74: welcome = self.ws.recv(), anything it raises is dropped.
\* With a frame waiting the read takes it; with none (or no socket) the read
\* times out or fails, and connect() returns all the same.
K71(t) ==
    /\ t \in world.threads
    /\ th[t].pc = "K71"
    /\ IF ws # None /\ socks[ws].inbox # <<>>
       THEN /\ socks' = [socks EXCEPT ![ws].inbox = Tail(@)]
            /\ th' = AfterConnect([th EXCEPT ![t].reads = @ + 1], t)
       ELSE /\ th' = AfterConnect(th, t)
            /\ UNCHANGED socks
    /\ UNCHANGED <<bridgeVars, ws, connected, nsock, ncalls, broken>>
    /\ UNCHANGED envVars

\* The handler of a failed create_connection that logs and returns.
K76Swallow(t) ==
    /\ t \in world.threads
    /\ th[t].pc = "K76"
    /\ connected' = FALSE
    /\ ws' = None
    /\ th' = AfterConnect(th, t)
    /\ UNCHANGED <<bridgeVars, socks, nsock, ncalls, broken>>
    /\ UNCHANGED envVars

\* Lines 76-79: the handler of a failed create_connection.
K76(t) ==
    /\ t \in world.threads
    /\ th[t].pc = "K76"
    /\ connected' = FALSE
    /\ ws' = None
    /\ Finish(t, VSCodeBridgeError("Connection failed: ", th[t].exc, "None"))
    /\ UNCHANGED <<bridgeVars, socks, nsock, ncalls, broken>>
    /\ UNCHANGED envVars
\* ------------------------------------------------------------ facade calls
\* A caller invokes one of the four facade methods (lines 144-185); the
\* method builds its command and enters send_json_message.  The call's
\* number is the id of its request.
Call(t, op) ==
    /\ Idle(t)
    /\ op \in world.ops
    /\ instance # None
    /\ ncalls < world.calls
    /\ ncalls' = ncalls + 1
    /\ th' = [th EXCEPT ![t] = [Begin(t, op) EXCEPT
                                   !.pc = "J111", !.req = ncalls + 1]]
    /\ UNCHANGED <<bridgeVars, ws, connected, socks, nsock, broken>>
    /\ UNCHANGED envVars

\* send_json_message, lines 111-115: connect when not connected, then
\* json.dumps and the call of send_raw_message.
J111(t) ==
    /\ t \in world.threads
    /\ th[t].pc = "J111"
    /\ IF ~connected
       THEN th' = [th EXCEPT ![t].pc = "K60", ![t].ret = "J"]
       ELSE th' = [th EXCEPT ![t].pc = "R83"]
    /\ UNCHANGED <<bridgeVars, ws, connected, socks, nsock, ncalls, broken>>
    /\ UNCHANGED envVars

\* send_raw_message, lines 83-84: if not self.connected: self.connect()
R83(t) ==
    /\ t \in world.threads
    /\ th[t].pc = "R83"
    /\ IF ~connected
       THEN th' = [th EXCEPT ![t].pc = "K60", ![t].ret = "R"]
       ELSE th' = [th EXCEPT ![t].pc = "R86"]
    /\ UNCHANGED <<bridgeVars, ws, connected, socks, nsock, ncalls, broken>>
    /\ UNCHANGED envVars

\* Lines 86-87: if not self.connected or not self.ws: raise
R86(t) ==
    /\ t \in world.threads
    /\ th[t].pc = "R86"
    /\ IF ~connected \/ ws = None
       THEN Finish(t, VSCodeBridgeError("Not connected to WebSocket server",
                                        "", "None"))
       ELSE th' = [th EXCEPT ![t].pc = "R91"]
    /\ UNCHANGED <<bridgeVars, ws, connected, socks, nsock, ncalls, broken>>
    /\ UNCHANGED envVars

\* Line 91, self.ws.send(message) succeeds: the request is on its way to the
\* host of the socket self.ws names now.
R91ok(t) ==
    /\ t \in world.threads
    /\ th[t].pc = "R91"
    /\ ws # None
    /\ socks[ws].closes = 0
    /\ socks' = [socks EXCEPT
           ![ws].toHost = Append(@, [req |-> th[t].req,
                                     command |-> CommandTag(th[t].op)]),
           ![ws].sent = Append(@, th[t].req)]
    /\ th' = [th EXCEPT ![t].pc = "R94", ![t].sends = @ + 1]
    /\ UNCHANGED <<bridgeVars, ws, connected, nsock, ncalls, broken>>
    /\ UNCHANGED envVars

\* Line 91 raises: the write fails (or self.ws is None by now).
R91fail(t, cause) ==
    /\ t \in world.threads
    /\ cause \in world.ioCauses \cup {"AttributeError"}
    /\ th[t].pc = "R91"
    /\ (ws = None) <=> (cause = "AttributeError")
    /\ th' = [th EXCEPT ![t].pc = "R103", ![t].exc = cause]
    /\ broken' = IF ws = None THEN broken ELSE broken \cup {ws}
    /\ UNCHANGED <<bridgeVars, ws, connected, socks, nsock, ncalls>>
    /\ UNCHANGED envVars

\* Lines 94-101, self.ws.recv() returns the next frame of the socket self.ws
\* names now; the frame's text becomes the response string.
R94ok(t) ==
    /\ t \in world.threads
    /\ th[t].pc = "R94"
    /\ ws # None
    /\ socks[ws].inbox # <<>>
    /\ socks' = [socks EXCEPT ![ws].inbox = Tail(@),
                              ![ws].got = Append(@, Head(socks[ws].inbox).req)]
    /\ th' = [th EXCEPT ![t].pc = "J117", ![t].resp = Head(socks[ws].inbox),
                        ![t].reads = @ + 1]
    /\ UNCHANGED <<bridgeVars, ws, connected, nsock, ncalls, broken>>
    /\ UNCHANGED envVars

\* Line 94 raises: no frame came (the peer closed, the read timed out), or
\* self.ws is None by now.
R94fail(t, cause) ==
    /\ t \in world.threads
    /\ cause \in world.ioCauses \cup {"AttributeError"}
    /\ th[t].pc = "R94"
    /\ (ws = None) <=> (cause = "AttributeError")
    /\ ws # None => socks[ws].inbox = <<>>
    /\ th' = [th EXCEPT ![t].pc = "R103", ![t].exc = cause]
    /\ broken' = IF ws = None THEN broken ELSE broken \cup {ws}
    /\ UNCHANGED <<bridgeVars, ws, connected, socks, nsock, ncalls>>
    /\ UNCHANGED envVars

\* The handler of a failed send or receive without its self.ws = None.
R103KeepWs(t) ==
    /\ t \in world.threads
    /\ th[t].pc = "R103"
    /\ connected' = FALSE
    /\ Finish(t, VSCodeBridgeError("Message send failed: ", th[t].exc, "None"))
    /\ UNCHANGED <<bridgeVars, ws, socks, nsock, ncalls, broken>>
    /\ UNCHANGED envVars

\* The handler of a failed send or receive that marks the bridge closed and
\* starts send_raw_message over: reconnect and send again.
R103Retry(t) ==
    /\ t \in world.threads
    /\ th[t].pc = "R103"
    /\ connected' = FALSE
    /\ ws' = None
    /\ th' = [th EXCEPT ![t].pc = "R83"]
    /\ UNCHANGED <<bridgeVars, socks, nsock, ncalls, broken>>
    /\ UNCHANGED envVars

\* The handler of a failed send or receive that raises and leaves the
\* connection state as it is.
R103Keep(t) ==
    /\ t \in world.threads
    /\ th[t].pc = "R103"
    /\ Finish(t, VSCodeBridgeError("Message send failed: ", th[t].exc, "None"))
    /\ UNCHANGED <<bridgeVars, ws, connected, socks, nsock, ncalls, broken>>
    /\ UNCHANGED envVars

\* Lines 103-107: the handler of a failed send or receive.
R103(t) ==
    /\ t \in world.threads
    /\ th[t].pc = "R103"
    /\ connected' = FALSE
    /\ ws' = None
    /\ Finish(t, VSCodeBridgeError("Message send failed: ", th[t].exc, "None"))
    /\ UNCHANGED <<bridgeVars, socks, nsock, ncalls, broken>>
    /\ UNCHANGED envVars

\* The decode that treats a reply it raises on as a transport failure and
\* marks the bridge closed.
J117DropOnError(t) ==
    /\ t \in world.threads
    /\ th[t].pc = "J117"
    /\ Finish(t, FacadeResult(th[t].op, th[t].resp.text))
    /\ IF FacadeResult(th[t].op, th[t].resp.text).kind = "raise"
       THEN connected' = FALSE /\ ws' = None
       ELSE UNCHANGED <<ws, connected>>
    /\ UNCHANGED <<bridgeVars, socks, nsock, ncalls, broken>>
    /\ UNCHANGED envVars

\* send_json_message lines 117-130 and the facade method's return.
J117(t) ==
    /\ t \in world.threads
    /\ th[t].pc = "J117"
    /\ Finish(t, FacadeResult(th[t].op, th[t].resp.text))
    /\ UNCHANGED <<bridgeVars, ws, connected, socks, nsock, ncalls, broken>>
    /\ UNCHANGED envVars

\* --------------------------------------------------------- cleanup, exit
\* cleanup() without the try around close(): what close() raises ends the
\* method before the handle and the flag are cleared.
CleanedUpCloseRaises(closeFails) ==
    /\ IF ws # None
       THEN socks' = [socks EXCEPT ![ws].closes = @ + 1]
       ELSE /\ ~closeFails
            /\ UNCHANGED socks
    /\ IF ws # None /\ closeFails
       THEN UNCHANGED <<ws, connected>>
       ELSE ws' = None /\ connected' = FALSE

\* cleanup(), lines 132-140, as far as the bridge's state goes: close() is
\* called on the socket held, whatever it raises is dropped.
CleanedUp(closeFails) ==
    /\ IF ws # None
       THEN socks' = [socks EXCEPT ![ws].closes = @ + 1]
       ELSE /\ ~closeFails
            /\ UNCHANGED socks
    /\ ws' = None
    /\ connected' = FALSE

\* A caller invokes bridge.cleanup().
Cleanup(t, closeFails) ==
    /\ Idle(t)
    /\ instance # None
    /\ CleanedUp(closeFails)
    /\ th' = [th EXCEPT ![t] = [Begin(t, "cleanup") EXCEPT
                  !.pc = "idle", !.out = Returned("None"),
                  !.closes = IF socks' # socks THEN 1 ELSE 0,
                  !.exc = IF closeFails THEN "close failed" ELSE ""]]
    /\ UNCHANGED <<bridgeVars, nsock, ncalls, broken>>
    /\ UNCHANGED envVars

\* The process exits: the hook registered at line 56 runs cleanup(), and the
\* callers with their locals are gone.
Exit(closeFails) ==
    /\ ~exited
    /\ \A t \in world.threads : th[t].pc = "idle"
    /\ IF atexitHook
       THEN CleanedUp(closeFails)
       ELSE ~closeFails /\ UNCHANGED <<ws, connected, socks>>
    /\ exited' = TRUE
    /\ th' = [t \in AllThreads |-> IdleThread]
    /\ UNCHANGED <<bridgeVars, nsock, ncalls, broken, world>>

\* -------------------------------------------------------------- the host
\* The host answers the oldest request it has on socket s with one frame.  It
\* answers on a live socket only: not on one the client closed, nor on one
\* whose send or receive has failed.
HostReply(s, text) ==
    /\ ~exited
    /\ s \in 1..nsock
    /\ socks[s].toHost # <<>>
    /\ socks[s].closes = 0
    /\ s \notin broken
    /\ text \in world.texts
    /\ socks' = [socks EXCEPT
           ![s].toHost = Tail(@),
           ![s].inbox = Append(@, [req |-> Head(socks[s].toHost).req,
                                   text |-> text])]
    /\ UNCHANGED <<bridgeVars, ws, connected, nsock, ncalls, th, broken>>
    /\ UNCHANGED envVars

\* ------------------------------------------------------------------- spec
Next ==
    \/ \E t \in AllThreads, p \in Ports : Construct(t, p)
    \/ \E t \in AllThreads : ConnectCall(t)
    \/ \E t \in AllThreads : K60(t)
    \/ \E t \in AllThreads, greets \in BOOLEAN : K65ok(t, greets)
    \/ \E t \in AllThreads, cause \in ConnectCauses : K65fail(t, cause)
    \/ \E t \in AllThreads : K66(t)
    \/ \E t \in AllThreads : K71(t)
    \/ \E t \in AllThreads : K76(t)
    \/ \E t \in AllThreads, op \in FacadeOps : Call(t, op)
    \/ \E t \in AllThreads : J111(t)
    \/ \E t \in AllThreads : R83(t)
    \/ \E t \in AllThreads : R86(t)
    \/ \E t \in AllThreads : R91ok(t)
    \/ \E t \in AllThreads, cause \in IoCauses \cup {"AttributeError"} :
           R91fail(t, cause)
    \/ \E t \in AllThreads : R94ok(t)
    \/ \E t \in AllThreads, cause \in IoCauses \cup {"AttributeError"} :
           R94fail(t, cause)
    \/ \E t \in AllThreads : R103(t)
    \/ \E t \in AllThreads : J117(t)
    \/ \E t \in AllThreads, closeFails \in BOOLEAN : Cleanup(t, closeFails)
    \/ \E closeFails \in BOOLEAN : Exit(closeFails)
    \/ \E s \in 1..MaxSockets, text \in ReplyTexts : HostReply(s, text)

Spec == Init /\ [][Next]_vars

\* Two threads share the bridge and call notify and get_text_from_editor;
\* the host answers every request with {"result": null}.
InitMT ==
    InitWith([threads |-> AllThreads, texts |-> {"{\"result\": null}"},
              ops |-> {"notify", "get_text_from_editor"},
              ports |-> {DefaultPort}, connectCauses |-> {"refused"},
              ioCauses |-> {"timed out"},
              calls |-> MTCalls, sockets |-> MTSockets])
SpecMT == InitMT /\ [][Next]_vars
\* ----------------------------------------------------------------- claims
IsPrefix(a, b) == Len(a) <= Len(b) /\ SubSeq(b, 1, Len(a)) = a

\* A facade call of thread t has ended.
FacadeDone(t) ==
    t \in world.threads /\ th[t].pc = "idle" /\ th[t].op \in FacadeOps

\* C1: with calls issued one at a time, the frame a facade call takes as its
\* reply is the host's reply to that call's own request; on every socket the
\* replies read are, in order, the replies to the requests written, and when
\* a call holds its reply every request written on the connection has been
\* answered by exactly one frame read and no frame is left unread.
C1_RepliesInSendOrder ==
    /\ \A s \in 1..nsock : IsPrefix(socks[s].got, socks[s].sent)
    /\ \A t \in world.threads :
          th[t].resp # NoFrame =>
              /\ th[t].resp.req = th[t].req
              /\ th[t].sends = 1
              /\ ws # None
              /\ socks[ws].got = socks[ws].sent
              /\ socks[ws].inbox = <<>>

\* The third call has its reply, the third on one greeted connection.
C1_Witness ==
    /\ FacadeDone(1)
    /\ th[1].req = 3
    /\ th[1].resp.req = 3
    /\ nsock = 1
    /\ socks[1].got = <<1, 2, 3>>

\* C2: when a send or a receive of send_raw_message has failed, the caller
\* sees the error with the bridge marked closed (connected false, no
\* handle); no later send or receive uses a socket on which one failed; and
\* a facade call begun while disconnected that gets as far as sending has
\* opened exactly one connection, the newest socket, and uses that one.
C2_FailedConnectionNotReused ==
    /\ \A t \in world.threads :
          (th[t].pc = "idle" /\ th[t].out.msg = "Message send failed: ") =>
              (~connected /\ ws = None)
    /\ \A t \in world.threads :
          (th[t].pc \in {"R86", "R91", "R94"} /\ ws # None) =>
              ws \notin broken
    /\ \A t \in world.threads :
          (th[t].pc \in {"R91", "R94", "J117"} /\ ~th[t].wasConnected) =>
              (th[t].opens = 1 /\ ws = nsock /\ connected)

\* Call 1 lost its connection in the receive; call 2, the next facade call,
\* opened socket 2 itself and returned the host's reply to its own request.
C2_Witness ==
    /\ FacadeDone(1)
    /\ broken = {1}
    /\ socks[1].sent = <<1>>
    /\ socks[1].got = <<>>
    /\ th[1].req = 2
    /\ th[1].opens = 1
    /\ ws = 2
    /\ socks[2].got = <<2>>
    /\ th[1].out.kind = "return"

\* C3: with several threads making facade calls on the shared bridge (the
\* latest operation of each is a facade call, not a connect() or cleanup()
\* of its own), at most one command awaits its reply at any instant and
\* every thread that holds a reply holds the reply to its own command.
C3_OneCommandInFlight ==
    (\A t \in world.threads : th[t].op \notin {"connect", "cleanup"}) =>
        /\ Cardinality({t \in world.threads : th[t].pc = "R94"}) <= 1
        /\ \A t \in world.threads :
              th[t].resp # NoFrame => th[t].resp.req = th[t].req

\* C4: a facade call ends by returning or by raising VSCodeBridgeError,
\* whatever text the host replied with.
C4_OnlyBridgeErrorsEscape ==
    \A t \in world.threads :
        FacadeDone(t) =>
            \/ th[t].out.kind = "return"
            \/ th[t].out.etype = "VSCodeBridgeError"

\* C5: a reply whose 'error' is {message: X, code: 42}, with or without a
\* 'result' beside it, makes the facade call raise VSCodeBridgeError with
\* message X and code 42.
C5_ErrorReplyRaises ==
    \A t \in world.threads :
        (FacadeDone(t) /\ th[t].resp.text \in
            {"{\"error\": {\"message\": \"X\", \"code\": 42}}",
             "{\"error\": {\"message\": \"X\", \"code\": 42}, \"result\": \"hello\"}"})
        => th[t].out = VSCodeBridgeError("X", "", "42")

\* A getter was answered with an error and a result, and raised.
C5_Witness ==
    /\ FacadeDone(1)
    /\ th[1].op = "get_text_from_editor"
    /\ th[1].resp.text =
           "{\"error\": {\"message\": \"X\", \"code\": 42}, \"result\": \"hello\"}"
    /\ th[1].out.kind = "raise"
    /\ th[1].out.code = "42"

\* C6: a reply {} makes notify and set_active_editor_text return None,
\* get_editor_titles return the empty list and get_text_from_editor the
\* empty string.
C6_EmptyReplyIsSuccess ==
    \A t \in world.threads :
        (FacadeDone(t) /\ th[t].resp.text = "{}") =>
            th[t].out = Returned(
                CASE th[t].op = "get_editor_titles" -> "[]"
                  [] th[t].op = "get_text_from_editor" -> "''"
                  [] OTHER -> "None")

\* get_editor_titles was answered {} and returned the empty list.
C6_Witness ==
    /\ FacadeDone(1)
    /\ th[1].op = "get_editor_titles"
    /\ th[1].resp.text = "{}"
    /\ th[1].out = Returned("[]")

\* C7: the instance VSCodeBridge(p) returns has port p and url
\* ws://localhost:p.
C7_InstanceHasRequestedPort ==
    \A t \in world.threads :
        (th[t].pc = "idle" /\ th[t].op = "construct") =>
            (port = th[t].portArg /\ url = UrlOf(th[t].portArg))

\* C8: once the process has exited every socket that was opened has had
\* close() called on it exactly once.
C8_EverySocketClosedOnce ==
    exited => \A s \in 1..nsock : socks[s].closes = 1

\* C9: connect() called on a connected bridge returns having opened no
\* socket and read no frame, with the handle and the flag as they were.
C9_ConnectIdempotent ==
    \A t \in world.threads :
        (th[t].pc = "idle" /\ th[t].op = "connect"
            /\ th[t].wasConnected /\ th[t].wasWs # None) =>
            /\ th[t].out = Returned("None")
            /\ th[t].opens = 0
            /\ th[t].reads = 0
            /\ ws = th[t].wasWs
            /\ connected

\* connect() has returned from a call made on a connected bridge whose
\* socket had served a request.
C9_Witness ==
    /\ th[1].pc = "idle"
    /\ th[1].op = "connect"
    /\ th[1].wasConnected
    /\ th[1].wasWs = 1
    /\ socks[1].got = <<1>>

\* C10: when create_connection has failed in an operation, the operation
\* ends raising VSCodeBridgeError "Connection failed: <cause>" with the
\* bridge disconnected (connected false, no handle), having written nothing
\* to any socket.
C10_ConnectFailureLeavesDisconnected ==
    \A t \in world.threads :
        (th[t].pc = "idle" /\ th[t].failCause # "") =>
            /\ th[t].out = VSCodeBridgeError("Connection failed: ",
                                             th[t].failCause, "None")
            /\ ~connected
            /\ ws = None
            /\ th[t].sends = 0
            /\ th[t].opens = 1

\* A facade call made on a disconnected bridge ended on a name resolution
\* error of its implicit connect.
C10_Witness ==
    /\ FacadeDone(1)
    /\ th[1].failCause = "name resolution"
    /\ th[1].out.kind = "raise"
    /\ th[1].out.detail = "name resolution"

\* C11: cleanup() returns normally, whether close() raised or not, with the
\* bridge disconnected and without a handle; it calls close() once when it
\* held a socket, and called on a bridge that holds none (a second call) it
\* calls close() on no socket.
C11_CleanupNeverRaisesIdempotent ==
    \A t \in world.threads :
        (th[t].pc = "idle" /\ th[t].op = "cleanup") =>
            /\ th[t].out = Returned("None")
            /\ ~connected
            /\ ws = None
            /\ th[t].closes = (IF th[t].wasWs = None THEN 0 ELSE 1)
            /\ \A s \in 1..nsock : socks[s].closes <= 1

\* cleanup() has returned from a call in which close() raised on the socket
\* that had served a request.
C11_Witness ==
    /\ th[1].pc = "idle"
    /\ th[1].op = "cleanup"
    /\ th[1].exc = "close failed"
    /\ th[1].wasWs = 1
    /\ socks[1].got = <<1>>
    /\ socks[1].closes = 1

\* C12: a facade call attempts at most one connection and writes its command
\* to a socket at most once, and a call in which the connect, the send or
\* the receive failed ends raising VSCodeBridgeError for that failure.
C12_NoRetryInsideCall ==
    \A t \in world.threads :
        th[t].op \in FacadeOps =>
            /\ th[t].opens <= 1
            /\ th[t].sends <= 1
            /\ (th[t].pc = "idle" /\ th[t].exc # "") =>
                   /\ th[t].out.kind = "raise"
                   /\ th[t].out.etype = "VSCodeBridgeError"
                   /\ th[t].out.detail = th[t].exc

\* The first call wrote its command once, its receive timed out, and it
\* ended with the error while a second socket could still be opened.
C12_Witness ==
    /\ FacadeDone(1)
    /\ th[1].req = 1
    /\ th[1].sends = 1
    /\ th[1].exc = "timed out"
    /\ th[1].out.msg = "Message send failed: "
    /\ socks[1].sent = <<1>>
    /\ socks[1].got = <<>>
    /\ nsock = 1

\* C13: whenever no operation of the bridge is executing, connected is true
\* exactly when the bridge holds a socket handle.
C13_ConnectedIffHandle ==
    (\A t \in world.threads : th[t].pc = "idle") =>
        (connected <=> ws # None)

\* An explicit connect() was refused after an earlier call had lost socket 1
\* in a send or receive: the bridge is disconnected and holds no handle.
C13_Witness ==
    /\ th[1].pc = "idle"
    /\ th[1].op = "connect"
    /\ th[1].failCause = "refused"
    /\ broken = {1}
    /\ ~connected
    /\ ws = None

\* C14: a facade call that fails on a reply carrying an 'error' object, or
\* on a reply that is not JSON, leaves the bridge connected on the socket it
\* used (the one held at entry, or the one the call opened), which is
\* neither closed nor failed; and a facade call that finds the bridge
\* connected opens no connection and exchanges on the handle it found.
C14_ErrorReplyKeepsConnection ==
    /\ \A t \in world.threads :
          (FacadeDone(t) /\ th[t].resp.text \in
              {"{\"error\": {\"message\": \"X\", \"code\": 42}}",
               "{\"error\": {\"message\": \"X\"}}",
               "{\"error\": {}}",
               "not json"}) =>
              /\ th[t].out.etype = "VSCodeBridgeError"
              /\ connected
              /\ ws # None
              /\ ws = (IF th[t].wasConnected THEN th[t].wasWs ELSE nsock)
              /\ ws \notin broken
              /\ socks[ws].closes = 0
    /\ \A t \in world.threads :
          (th[t].op \in FacadeOps /\ th[t].wasConnected) =>
              /\ th[t].opens = 0
              /\ th[t].pc \in {"R91", "R94", "J117"} => ws = th[t].wasWs

\* The second call found the bridge connected, exchanged on the same socket
\* as the first, was answered with text that is not JSON and raised; the
\* bridge still holds that socket.
C14_Witness ==
    /\ FacadeDone(1)
    /\ th[1].req = 2
    /\ th[1].wasConnected
    /\ th[1].wasWs = 1
    /\ th[1].opens = 0
    /\ th[1].resp.text = "not json"
    /\ th[1].out.msg = "Invalid JSON response: "
    /\ socks[1].got = <<1, 2>>
    /\ ws = 1
====
